---- MODULE Spec2Model ----
(***************************************************************************)
(* Model of the Elix career-advisor backend (src/app.py): the profile      *)
(* resolver, the scoring functions, the in-memory session store and the    *)
(* three request handlers.                                                 *)
(*                                                                         *)
(* Python strings on which the code computes (strip, lower, split, `in`)   *)
(* are sequences of one-character strings.  Identifiers that the code only *)
(* compares for equality or truthiness (usernames, passwords, session ids) *)
(* are plain strings.  Floats are kept in fixed point: GPA in hundredths,  *)
(* marks in tenths, scores in thousandths, returned scores and weights in  *)
(* tenths.                                                                 *)
(***************************************************************************)
EXTENDS Integers, Sequences, FiniteSets, TLC

VARIABLES
    DATA,       \* the dataset loaded at startup: a sequence of rows
    SESSIONS,   \* session_id -> [history, user]
    resp,       \* the response of the last completed request
    files,      \* names of the PDF files saved on disk
    inflight,   \* concurrent /ask requests: request -> its JSON body
    pc,         \* concurrent /ask requests: request -> position in the handler
    call,       \* the request last handled, or a direct call of a helper
    ret,        \* the value a direct call returned
    before      \* SESSIONS as the request last handled found it

vars == <<DATA, SESSIONS, resp, files, inflight, pc, call, ret, before>>

-----------------------------------------------------------------------------
(* Python string primitives *)

UpperChars == <<"A","B","C","D","E","F","G","H","I","J","K","L","M",
                "N","O","P","Q","R","S","T","U","V","W","X","Y","Z">>
LowerChars == <<"a","b","c","d","e","f","g","h","i","j","k","l","m",
                "n","o","p","q","r","s","t","u","v","w","x","y","z">>

UpperSet == {UpperChars[i] : i \in 1..Len(UpperChars)}
LowerOf  == [c \in UpperSet |->
                LowerChars[CHOOSE i \in 1..Len(UpperChars) : UpperChars[i] = c]]

LowerChar(c) == IF c \in UpperSet THEN LowerOf[c] ELSE c

\* str.lower()
lower(s) == [i \in 1..Len(s) |-> LowerChar(s[i])]

SetMin(S) == CHOOSE x \in S : \A y \in S : x <= y

\* str.lstrip() and str.rstrip(), whitespace being the space
RECURSIVE lstrip(_)
lstrip(s) == IF s # <<>> /\ Head(s) = " " THEN lstrip(Tail(s)) ELSE s
RECURSIVE rstrip(_)
rstrip(s) ==
    IF s # <<>> /\ s[Len(s)] = " " THEN rstrip(SubSeq(s, 1, Len(s) - 1)) ELSE s

\* str.strip(): leading and trailing whitespace removed
strip(s) == rstrip(lstrip(s))

\* Python's `a in b` on strings: a is a contiguous substring of b
IsSubstr(a, b) ==
    \E i \in 0..(Len(b) - Len(a)) : SubSeq(b, i + 1, i + Len(a)) = a

\* c in s, for a one-character separator c
HasChar(c, s) == \E i \in 1..Len(s) : s[i] = c

\* s.split(sep) for a one-character sep: every piece, empty ones included
RECURSIVE SplitOn(_, _)
SplitOn(s, sep) ==
    IF ~HasChar(sep, s) THEN <<s>>
    ELSE LET i == CHOOSE k \in 1..Len(s) :
                        s[k] = sep /\ \A j \in 1..(k - 1) : s[j] # sep
         IN  <<SubSeq(s, 1, i - 1)>> \o SplitOn(SubSeq(s, i + 1, Len(s)), sep)

\* [p.strip() for p in parts if p.strip()]
RECURSIVE StripNonEmpty(_)
StripNonEmpty(parts) ==
    IF parts = <<>> THEN <<>>
    ELSE LET p == strip(Head(parts))
         IN  (IF p = <<>> THEN <<>> ELSE <<p>>) \o StripNonEmpty(Tail(parts))

\* s.split(): the whitespace-delimited tokens, none empty
split(s) == StripNonEmpty(SplitOn(s, " "))

\* A missing cell: pandas reads it as NaN (dtype=str keeps NaN for blanks)
NaN == <<"NaN">>

\* str(v or ""): NaN is truthy, so str(NaN) is "nan"
Str(v) == IF v = NaN THEN <<"n","a","n">> ELSE v

Range(f) == {f[i] : i \in DOMAIN f}

\* safe_split: [] for a missing value, else split on the first of ";" and ","
\* that occurs, else the stripped string as the only entry
safe_split(s) ==
    IF s = NaN THEN <<>>
    ELSE IF HasChar(";", s) THEN StripNonEmpty(SplitOn(s, ";"))
    ELSE IF HasChar(",", s) THEN StripNonEmpty(SplitOn(s, ","))
    ELSE <<strip(s)>>

-----------------------------------------------------------------------------
(* The dataset *)

Row(sid, name, gpa, m10, m12, skills, domain, careers, interns, certs) ==
    [Student_ID |-> sid, Name |-> name, GPA |-> gpa, Marks10 |-> m10,
     Marks12 |-> m12, Skills |-> skills, Interested_Domain |-> domain,
     Career_Suggestions |-> careers, Internships |-> interns,
     Certifications |-> certs]

\* The three sample rows load_dataset writes when DATASET.csv is absent
\* (GPA in hundredths, marks in tenths)
Row1001 == Row(<<"1","0","0","1">>, <<"A","i","s","h","w","a","r","y","a"," ","I","y","e","r">>, 906, 950, 920,
               <<"E","x","c","e","l",";","P","o","w","e","r"," ","B","I",";","N","u","m","P","y",";","J","a","v","a","S","c","r","i","p","t",";","S","Q","L">>, <<"D","a","t","a">>,
               <<"D","a","t","a"," ","A","n","a","l","y","s","t",";","B","u","s","i","n","e","s","s"," ","A","n","a","l","y","s","t",";","D","a","t","a"," ","S","c","i","e","n","t","i","s","t",";","B","I"," ","D","e","v","e","l","o","p","e","r">>,
               <<"A","n","a","l","y","t","i","c","s"," ","I","n","t","e","r","n"," ","a","t"," ","X",";","B","I"," ","I","n","t","e","r","n"," ","a","t"," ","Y">>,
               <<"P","o","w","e","r"," ","B","I"," ","C","e","r","t",";","E","x","c","e","l"," ","A","d","v","a","n","c","e","d">>)
Row1002 == Row(<<"1","0","0","2">>, <<"A","a","r","a","v"," ","K","u","m","a","r">>, 820, 880, 860,
               <<"P","y","t","h","o","n",";","M","a","c","h","i","n","e"," ","L","e","a","r","n","i","n","g",";","S","Q","L">>, <<"A","I">>,
               <<"M","L"," ","E","n","g","i","n","e","e","r",";","D","a","t","a"," ","S","c","i","e","n","t","i","s","t",";","A","I"," ","R","e","s","e","a","r","c","h","e","r",";","M","L","O","p","s"," ","E","n","g","i","n","e","e","r">>,
               <<"M","L"," ","I","n","t","e","r","n"," ","a","t"," ","Z">>, <<"M","L"," ","N","a","n","o","d","e","g","r","e","e",";","P","y","t","h","o","n"," ","C","e","r","t">>)
Row1003 == Row(<<"1","0","0","3">>, <<"P","r","i","y","a"," ","S","h","a","r","m","a">>, 780, 850, 830,
               <<"J","a","v","a",";","N","e","t","w","o","r","k","s",";","S","e","c","u","r","i","t","y">>, <<"C","y","b","e","r","s","e","c","u","r","i","t","y">>,
               <<"S","e","c","u","r","i","t","y"," ","E","n","g","i","n","e","e","r",";","S","O","C"," ","A","n","a","l","y","s","t",";","P","e","n","e","t","r","a","t","i","o","n"," ","T","e","s","t","e","r",";","S","e","c","u","r","i","t","y"," ","C","o","n","s","u","l","t","a","n","t">>,
               <<"S","e","c","u","r","i","t","y"," ","I","n","t","e","r","n"," ","a","t"," ","Q">>, <<"C","E","H",";","N","e","t","w","o","r","k","+">>)

SampleData == <<Row1001, Row1002, Row1003>>

\* RowMatches with the two tests the code does not make: the row's domain
\* or name inside the query
RowMatches_query_contains(q, row) ==
    LET sid    == lower(strip(Str(row.Student_ID)))
        name   == lower(strip(Str(row.Name)))
        domain == lower(strip(Str(row.Interested_Domain)))
        sks    == safe_split(row.Skills)
    IN  \/ q = sid
        \/ q = name
        \/ IsSubstr(domain, q) \/ IsSubstr(name, q) \/ IsSubstr(q, name)
        \/ q = domain
        \/ \E k \in 1..Len(sks) : IsSubstr(lower(strip(sks[k])), q)

\* find_profile: the per-row test of lines 86-94, q already normalized
RowMatches(q, row) ==
    LET sid    == lower(strip(Str(row.Student_ID)))
        name   == lower(strip(Str(row.Name)))
        domain == lower(strip(Str(row.Interested_Domain)))
        sks    == safe_split(row.Skills)
    IN  \/ q = sid
        \/ q = name
        \/ IsSubstr(q, name)
        \/ q = domain
        \/ \E k \in 1..Len(sks) : IsSubstr(lower(strip(sks[k])), q)

RECURSIVE ScanFrom(_, _)
ScanFrom(q, i) ==
    IF i > Len(DATA) THEN 0
    ELSE IF RowMatches(q, DATA[i]) THEN i
    ELSE ScanFrom(q, i + 1)

\* find_profile as a best-match search: a pass for an exact identifier
\* first, the scan only after it
find_profile_exact_first(query) ==
    LET q    == lower(strip(query))
        hits == {i \in 1..Len(DATA) : q = lower(strip(Str(DATA[i].Student_ID)))}
    IN  IF hits # {} THEN SetMin(hits) ELSE ScanFrom(q, 1)

\* find_profile(query): the position in DATA of the row returned, 0 for None
find_profile(query) == ScanFrom(lower(strip(query)), 1)

-----------------------------------------------------------------------------
(* Scoring *)

\* A numeric cell that is missing or not a number (pd.to_numeric coerces it
\* to NaN, which ask turns into None)
NoNum == 0 - 1

LevelExcellent == "Excellent"
LevelGood      == "Good"
LevelNeeds     == "Needs Improvement"

\* The weighted score in thousandths: gpa (hundredths) / 10 * 50, and
\* marks (tenths) / 100 * 25 each; a missing component adds nothing
Score1000(gpa, m10, m12) ==
      (IF gpa = NoNum THEN 0 ELSE gpa * 50)
    + (IF m10 = NoNum THEN 0 ELSE m10 * 25)
    + (IF m12 = NoNum THEN 0 ELSE m12 * 25)

\* `score >= t` on the float sum.  The sum of the three float terms can fall
\* one unit in the last place below a value that is exact in decimal
\* (6.52, 53.3, 96.3 give 69.99999999999999), so when the exact score hits
\* the threshold the comparison has either outcome; everywhere else the
\* exact scores are 0.025 apart and the comparison is exact.
FloatGeq(score1000, t1000) ==
    IF score1000 = t1000 THEN {TRUE, FALSE} ELSE {score1000 > t1000}

\* round(score, 1) in tenths: the nearest tenth; at an exact decimal tie the
\* float is not the tie itself and either neighbour can be the result
Round1(score1000) ==
    LET lo == score1000 \div 100
        r  == score1000 % 100
    IN  IF r < 50 THEN {lo} ELSE IF r > 50 THEN {lo + 1} ELSE {lo, lo + 1}

\* performance_level: the set of (level, score in tenths) pairs the call can
\* return; the level is decided on the unrounded score
performance_level(gpa, m10, m12) ==
    LET score == Score1000(gpa, m10, m12)
    IN  { <<level, rounded>> :
            level \in { IF ge85 THEN LevelExcellent
                        ELSE IF ge70 THEN LevelGood
                        ELSE LevelNeeds :
                        ge85 \in FloatGeq(score, 85000),
                        ge70 \in FloatGeq(score, 70000) },
            rounded \in Round1(score) }

DOMAIN_SKILL_MAP ==
    << <<<<"A","I">>, <<<<"P","y","t","h","o","n">>, <<"M","a","c","h","i","n","e"," ","L","e","a","r","n","i","n","g">>, <<"D","e","e","p"," ","L","e","a","r","n","i","n","g">>,
                  <<"S","t","a","t","i","s","t","i","c","s">>, <<"T","e","n","s","o","r","F","l","o","w">>, <<"P","y","T","o","r","c","h">>>> >>,
       <<<<"D","a","t","a">>, <<<<"S","Q","L">>, <<"E","x","c","e","l">>, <<"P","o","w","e","r"," ","B","I">>, <<"T","a","b","l","e","a","u">>, <<"P","a","n","d","a","s">>,
                    <<"N","u","m","P","y">>, <<"S","t","a","t","i","s","t","i","c","s">>>> >>,
       <<<<"C","y","b","e","r","s","e","c","u","r","i","t","y">>, <<<<"L","i","n","u","x">>, <<"N","e","t","w","o","r","k","i","n","g">>, <<"E","t","h","i","c","a","l"," ","H","a","c","k","i","n","g">>,
                             <<"F","i","r","e","w","a","l","l","s">>, <<"C","r","y","p","t","o","g","r","a","p","h","y">>>> >>,
       <<<<"W","e","b"," ","D","e","v","e","l","o","p","m","e","n","t">>, <<<<"H","T","M","L">>, <<"C","S","S">>, <<"J","a","v","a","S","c","r","i","p","t">>, <<"R","e","a","c","t">>,
                               <<"N","o","d","e",".","j","s">>>> >> >>

\* dict.get(key, []) on a table of <<key, value>> pairs
GetOr(table, key, default) ==
    IF \E i \in 1..Len(table) : table[i][1] = key
    THEN table[CHOOSE i \in 1..Len(table) : table[i][1] = key][2]
    ELSE default

\* SkillValue comparing the required skill as written, not lower-cased
SkillValue_case_sensitive(r, skills_lower) ==
    IF \E k \in 1..Len(skills_lower) : skills_lower[k] = r
    THEN 100
    ELSE LET parts == split(r)
         IN  IF \E k \in 1..Len(skills_lower) : \E p \in 1..Len(parts) :
                    IsSubstr(lower(parts[p]), skills_lower[k])
             THEN 60 ELSE 20

\* The value compute_skill_fit gives one required skill r
SkillValue(r, skills_lower) ==
    IF \E k \in 1..Len(skills_lower) : skills_lower[k] = lower(r)
    THEN 100
    ELSE LET parts == split(r)
         IN  IF \E k \in 1..Len(skills_lower) : \E p \in 1..Len(parts) :
                    IsSubstr(lower(parts[p]), skills_lower[k])
             THEN 60 ELSE 20

\* compute_skill_fit(skills_list, domain) -> (reqs, values)
compute_skill_fit(skills_list, domain) ==
    LET reqs         == GetOr(DOMAIN_SKILL_MAP, domain, <<>>)
        skills_lower == [k \in 1..Len(skills_list) |-> lower(skills_list[k])]
    IN  [labels |-> reqs,
         values |-> [i \in 1..Len(reqs) |-> SkillValue(reqs[i], skills_lower)]]

\* round(100.0 / n, 1) in tenths.  100/n is a decimal tie only for n = 16,
\* 80, 400 (where the float is exact and Python rounds half to even) and
\* n = 2000.
EvenWeight(n) ==
    LET q == 1000 \div n
        r == 1000 % n
    IN  IF 2 * r < n THEN q
        ELSE IF 2 * r > n THEN q + 1
        ELSE IF q % 2 = 0 THEN q ELSE q + 1

\* build_career_weights without the remainder added to the last entry
build_career_weights_unadjusted(profile_row) ==
    LET careers == safe_split(Str(profile_row.Career_Suggestions))
        n       == Len(careers)
    IN  IF n = 0 THEN <<>>
        ELSE [i \in 1..n |-> [career |-> careers[i], weight |-> EvenWeight(n)]]

\* build_career_weights(profile_row): [career, weight in tenths] entries
build_career_weights(profile_row) ==
    LET careers == safe_split(Str(profile_row.Career_Suggestions))
        n       == Len(careers)
    IN  IF n = 0 THEN <<>>
        ELSE LET even == EvenWeight(n)
                 diff == 1000 - n * even
             IN  [i \in 1..n |->
                    [career |-> careers[i],
                     weight |-> IF i = n /\ diff # 0 THEN even + diff ELSE even]]

-----------------------------------------------------------------------------
(* Formatting used by the summary text *)

Digits == <<"0","1","2","3","4","5","6","7","8","9">>

RECURSIVE IntStr(_)
IntStr(n) ==
    IF n < 10 THEN <<Digits[n + 1]>>
    ELSE IntStr(n \div 10) \o <<Digits[(n % 10) + 1]>>

\* f"{gpa}" for a float given in hundredths (9.06, 8.2, 9.0), "None" if missing
FloatStr(g) ==
    IF g = NoNum THEN <<"N","o","n","e">>
    ELSE LET f == g % 100
         IN  IntStr(g \div 100) \o <<".">> \o
             (IF f % 10 = 0 THEN <<Digits[(f \div 10) + 1]>>
              ELSE <<Digits[(f \div 10) + 1], Digits[(f % 10) + 1]>>)

\* sep.join(items)
RECURSIVE Join(_, _)
Join(sep, items) ==
    IF items = <<>> THEN <<>>
    ELSE IF Len(items) = 1 THEN items[1]
    ELSE items[1] \o sep \o Join(sep, Tail(items))

-----------------------------------------------------------------------------
(* Session store and request handlers *)

USERS == ("kirubha" :> "12345") @@ ("admin" :> "admin123")

\* A key the JSON body does not carry
NoKey  == <<"NoKey">>       \* for a text field
NoneId == "None"            \* data.get("session_id") of a body without one

\* data.get(key, "")
GetStr(v) == IF v = NoKey THEN <<>> ELSE v
GetId(v)  == IF v = NoneId THEN "" ELSE v

NewSession(user) == [history |-> <<>>, user |-> user]

\* SESSIONS[sid] = value
Put(sessions, sid, value) ==
    [s \in DOMAIN sessions \cup {sid} |-> IF s = sid THEN value ELSE sessions[s]]

\* setdefault written as an assignment: an existing session is replaced
SetDefault_overwrites(sessions, sid, value) == Put(sessions, sid, value)

\* SESSIONS.setdefault(sid, value)
SetDefault(sessions, sid, value) ==
    IF sid \in DOMAIN sessions THEN sessions ELSE Put(sessions, sid, value)

\* append written as insert(0, entry)
Insert_history_first(sessions, sid, entry) ==
    [sessions EXCEPT ![sid].history = <<entry>> \o @]

\* SESSIONS[sid]["history"].append(entry)
Append_history(sessions, sid, entry) ==
    [sessions EXCEPT ![sid].history = Append(@, entry)]

Entry(sender, msg) == [sender |-> sender, msg |-> msg]

GuestResp(uuid) ==
    [route |-> "login", code |-> 200,
     body |-> [status |-> "guest", session_id |-> uuid,
               message |-> "Guest session started"]]
OkResp(username) ==
    [route |-> "login", code |-> 200,
     body |-> [status |-> "ok", session_id |-> username,
               message |-> <<"Welcome", username>>]]
ErrorResp ==
    [route |-> "login", code |-> 200,
     body |-> [status |-> "error", message |-> "Invalid credentials"]]

\* login starting a guest session only when both fields are empty
login_guest_when_both_empty(sessions, data, uuid) ==
    LET username == IF data.parsable THEN GetId(data.username) ELSE ""
        password == IF data.parsable THEN GetId(data.password) ELSE ""
    IN  IF username = "" /\ password = ""
        THEN [SESSIONS |-> Put(sessions, uuid, NewSession("guest")),
              resp |-> GuestResp(uuid)]
        ELSE IF username \in DOMAIN USERS /\ USERS[username] = password
        THEN [SESSIONS |-> Put(sessions, username, NewSession(username)),
              resp |-> OkResp(username)]
        ELSE [SESSIONS |-> sessions, resp |-> ErrorResp]

\* login keeping the session a returning user already has
login_keeps_session(sessions, data, uuid) ==
    LET username == IF data.parsable THEN GetId(data.username) ELSE ""
        password == IF data.parsable THEN GetId(data.password) ELSE ""
    IN  IF username = "" \/ password = ""
        THEN [SESSIONS |-> Put(sessions, uuid, NewSession("guest")),
              resp |-> GuestResp(uuid)]
        ELSE IF username \in DOMAIN USERS /\ USERS[username] = password
        THEN [SESSIONS |-> IF username \in DOMAIN sessions THEN sessions
                           ELSE Put(sessions, username, NewSession(username)),
              resp |-> OkResp(username)]
        ELSE [SESSIONS |-> sessions, resp |-> ErrorResp]

PleaseSendMsg == <<"P","l","e","a","s","e"," ","s","e","n","d"," ","a"," ","S","t","u","d","e","n","t"," ","I","D",","," ","N","a","m","e",","," ","o","r"," ","s","k","i","l","l",".">>
\* (the source writes the apostrophe as U+2019)
NotFoundMsg ==
    <<"I"," ","c","o","u","l","d","n","'","t"," ","f","i","n","d"," ","y","o","u","r"," ","p","r","o","f","i","l","e","."," ","P","l","e","a","s","e"," ","t","e","l","l"," ","m","e"," ","y","o","u","r"," ","S","t","u","d","e","n","t"," ","I","D",","," ","N","a","m","e",","," ","o","r"," ","S","k","i","l","l","s",".">>

\* The body of login after `await request.json()`; an unparsable body is {}.
\* uuid is the value uuid.uuid4() yields if it is called.
login(sessions, data, uuid) ==
    LET username == IF data.parsable THEN GetId(data.username) ELSE ""
        password == IF data.parsable THEN GetId(data.password) ELSE ""
    IN  IF username = "" \/ password = ""
        THEN [SESSIONS |-> Put(sessions, uuid, NewSession("guest")),
              resp |-> GuestResp(uuid)]
        ELSE IF username \in DOMAIN USERS /\ USERS[username] = password
        THEN [SESSIONS |-> Put(sessions, username, NewSession(username)),
              resp |-> OkResp(username)]
        ELSE [SESSIONS |-> sessions, resp |-> ErrorResp]

\* The session /ask works on: the one supplied, else a new uuid
TargetSession(data, uuid) ==
    IF data.session_id = NoneId \/ data.session_id = "" THEN uuid
    ELSE data.session_id

\* f"Hi {name}. Based on your profile (G P A {gpa}), top suggested careers
\*   include: {top_careers}. Your performance level is {level}."
SummaryText(name, gpa, careers, level) ==
    LET top == IF careers = <<>> THEN <<"s","o","m","e"," ","o","p","t","i","o","n","s">>
               ELSE Join(<<","," ">>, [i \in 1..(IF Len(careers) < 3 THEN Len(careers) ELSE 3)
                                    |-> careers[i].career])
    IN  <<"H","i"," ">> \o name \o <<"."," ","B","a","s","e","d"," ","o","n"," ","y","o","u","r"," ","p","r","o","f","i","l","e"," ","(","G"," ","P"," ","A"," ">> \o FloatStr(gpa)
        \o <<")",","," ","t","o","p"," ","s","u","g","g","e","s","t","e","d"," ","c","a","r","e","e","r","s"," ","i","n","c","l","u","d","e",":"," ">> \o top
        \o <<"."," ","Y","o","u","r"," ","p","e","r","f","o","r","m","a","n","c","e"," ","l","e","v","e","l"," ","i","s"," ">> \o level \o <<".">>

LevelText(level) ==
    IF level = LevelExcellent THEN <<"E","x","c","e","l","l","e","n","t">>
    ELSE IF level = LevelGood THEN <<"G","o","o","d">>
    ELSE <<"N","e","e","d","s"," ","I","m","p","r","o","v","e","m","e","n","t">>

\* The insights object of a matched profile, for one outcome perf of
\* performance_level.  The roadmap, internship and certification lists are
\* lookups in literal tables inside ask that nothing else reads; they are
\* left out of the object.
Insights(profile, perf) ==
    LET skills  == safe_split(Str(profile.Skills))
        domain  == Str(profile.Interested_Domain)
        careers == build_career_weights(profile)
        radar   == compute_skill_fit(skills, domain)
    IN  [student_id |-> Str(profile.Student_ID),
         name |-> Str(profile.Name),
         gpa |-> profile.GPA,
         marks |-> <<profile.Marks10, profile.Marks12>>,
         skills |-> skills,
         domain |-> domain,
         career_suggestions |-> careers,
         performance |-> [level |-> perf[1], score |-> perf[2]],
         radar |-> radar,
         summary_text |-> SummaryText(Str(profile.Name), profile.GPA, careers,
                                      LevelText(perf[1]))]

\* The body of ask after `await request.json()`: the set of outcomes
\* [SESSIONS, resp] it can end with (more than one only where
\* performance_level has more than one).
ask(sessions, data, uuid) ==
    IF ~data.parsable
    THEN {[SESSIONS |-> sessions,
           resp |-> [route |-> "ask", code |-> 400, body |-> "Invalid JSON"]]}
    ELSE
    LET query      == strip(GetStr(data.query))
        session_id == TargetSession(data, uuid)
        s1 == IF data.session_id = NoneId \/ data.session_id = ""
              THEN Put(sessions, session_id, NewSession("guest"))
              ELSE sessions
        s2 == SetDefault(s1, session_id, NewSession("guest"))
        s3 == Append_history(s2, session_id, Entry("user", query))
        found == find_profile(query)
    IN  IF query = <<>>
        THEN {[SESSIONS |-> s3,
               resp |-> [route |-> "ask", code |-> 200,
                         body |-> [answer |-> PleaseSendMsg]]]}
        ELSE IF found = 0
        THEN {[SESSIONS |-> Append_history(s3, session_id, Entry("elix", NotFoundMsg)),
               resp |-> [route |-> "ask", code |-> 200,
                         body |-> [answer |-> NotFoundMsg]]]}
        ELSE LET profile == DATA[found]
             IN  { LET insights == Insights(profile, perf)
                   IN  [SESSIONS |-> Append_history(s3, session_id,
                                        Entry("elix", insights.summary_text)),
                        resp |-> [route |-> "ask", code |-> 200,
                                  body |-> [answer |-> insights.summary_text,
                                            insights |-> insights,
                                            session_id |-> session_id]]] :
                   perf \in performance_level(profile.GPA, profile.Marks10,
                                              profile.Marks12) }

\* The row download_plan's loop stops at, 0 if none: the trimmed Student_ID
\* equals the trimmed path parameter (case kept)
FindStudent(student_id) ==
    LET hits == {i \in 1..Len(DATA) :
                    strip(Str(DATA[i].Student_ID)) = strip(student_id)}
    IN  IF hits = {} THEN 0 ELSE SetMin(hits)

\* f"{name.replace(' ','_')}_career_plan.pdf"
PlanFilename(name) ==
    [i \in 1..Len(name) |-> IF name[i] = " " THEN "_" ELSE name[i]]
    \o <<"_","c","a","r","e","e","r","_","p","l","a","n",".","p","d","f">>

\* download_plan: 404 for an unknown id.  For a known id the canvas is
\* created and drawn on, and the function ends after the internships loop
\* (line 341): `c.save()` and the FileResponse stand after root's return
\* statement (lines 353-354), so no file is written and the handler returns
\* None, which is sent as a 200 response with body null.
download_plan(saved, student_id) ==
    IF FindStudent(student_id) = 0
    THEN [files |-> saved,
          resp |-> [route |-> "download", code |-> 404,
                    body |-> "Student not found"]]
    ELSE [files |-> saved,
          resp |-> [route |-> "download", code |-> 200, body |-> "null"]]

\* root: returns static/index.html; the two lines after the return never run
root(saved) ==
    [files |-> saved,
     resp |-> [route |-> "root", code |-> 200, body |-> "static/index.html"]]

-----------------------------------------------------------------------------
(* Bounds and inputs *)

MaxUuids    == 1    \* session ids uuid4 can hand out
MaxEntries  == 2    \* history entries the store is let grow to, all sessions
NumRequests == 3    \* concurrent /ask requests
MaxRows     == 3    \* rows of a dataset given to find_profile
MaxSkills   == 2    \* skills of a student given to compute_skill_fit
MaxCareers  == 16   \* entries of a Career_Suggestions cell

UuidNames == <<"uuid-1", "uuid-2", "uuid-3", "uuid-4">>
UuidPool  == {UuidNames[i] : i \in 1..MaxUuids}

\* what uuid.uuid4() can return: an identifier not in use
Uuid4(sessions) == UuidPool \ DOMAIN sessions

NoSessions == [s \in {} |-> NewSession("guest")]
NoResp     == [route |-> "none", code |-> 0, body |-> "none"]
NoCall     == [fn |-> "none", args |-> <<>>]
NoRet      == [done |-> FALSE, val |-> <<>>]
NoRequests == <<>>

Unparsable == [parsable |-> FALSE]

LoginBodies ==
    {Unparsable} \cup
    [parsable : {TRUE},
     username : {NoneId, "", "kirubha", "eve"},
     password : {NoneId, "", "12345", "admin123"}]

QueryInputs == {NoKey, <<>>, <<" ","1","0","0","1"," ">>, <<"z","z">>}

AskBodies(sessions) ==
    {Unparsable} \cup
    [parsable : {TRUE},
     query : QueryInputs,
     session_id : {NoneId, "", "kirubha"} \cup DOMAIN sessions]

DownloadIds == {<<"1","0","0","1">>, <<" ","1","0","0","3"," ">>, <<"9","9","9","9">>, <<>>}

-----------------------------------------------------------------------------
(* The server, one request at a time: each action is a whole handler (a     *)
(* handler's only await is the read of the request body, before it touches *)
(* any state)                                                              *)

Init ==
    /\ DATA = SampleData
    /\ SESSIONS = NoSessions
    /\ resp = NoResp
    /\ files = {}
    /\ inflight = NoRequests
    /\ pc = <<>>
    /\ call = NoCall
    /\ ret = NoRet
    /\ before = NoSessions

LoginCallsUuid(data) ==
    \/ ~data.parsable
    \/ GetId(data.username) = ""
    \/ GetId(data.password) = ""

Login ==
    \E data \in LoginBodies :
      \E uuid \in (IF LoginCallsUuid(data) THEN Uuid4(SESSIONS) ELSE {NoneId}) :
        LET out == login(SESSIONS, data, uuid)
        IN  /\ SESSIONS' = out.SESSIONS
            /\ resp' = out.resp
            /\ call' = [fn |-> "login", args |-> <<data>>]
            /\ before' = SESSIONS
            /\ UNCHANGED <<DATA, files, inflight, pc, ret>>

AskCallsUuid(data) ==
    data.parsable /\ (data.session_id = NoneId \/ data.session_id = "")

RECURSIVE EntryCount(_, _)
EntryCount(sessions, ids) ==
    IF ids = {} THEN 0
    ELSE LET s == CHOOSE x \in ids : TRUE
         IN  Len(sessions[s].history) + EntryCount(sessions, ids \ {s})

HistoryWithin(sessions) == EntryCount(sessions, DOMAIN sessions) <= MaxEntries

Ask ==
    \E data \in AskBodies(SESSIONS) :
      \E uuid \in (IF AskCallsUuid(data) THEN Uuid4(SESSIONS) ELSE {NoneId}) :
        \E out \in ask(SESSIONS, data, uuid) :
            /\ HistoryWithin(out.SESSIONS)
            /\ SESSIONS' = out.SESSIONS
            /\ resp' = out.resp
            /\ call' = [fn |-> "ask", args |-> <<data>>]
            /\ before' = SESSIONS
            /\ UNCHANGED <<DATA, files, inflight, pc, ret>>

Download ==
    \E student_id \in DownloadIds :
        LET out == download_plan(files, student_id)
        IN  /\ files' = out.files
            /\ resp' = out.resp
            /\ call' = [fn |-> "download_plan", args |-> <<student_id>>]
            /\ before' = SESSIONS
            /\ UNCHANGED <<DATA, SESSIONS, inflight, pc, ret>>

Root ==
    LET out == root(files)
    IN  /\ files' = out.files
        /\ resp' = out.resp
        /\ call' = [fn |-> "root", args |-> <<>>]
        /\ before' = SESSIONS
        /\ UNCHANGED <<DATA, SESSIONS, inflight, pc, ret>>

Next == Login \/ Ask \/ Download \/ Root

Spec == Init /\ [][Next]_vars

-----------------------------------------------------------------------------
(* Concurrent /ask requests on one event loop.  An `async def` handler runs *)
(* until it awaits; ask awaits once, at `await request.json()` (line 166),  *)
(* and the rest of its body runs without yielding.                          *)

ConcurrentSession == "kirubha"

ConcurrentBodies ==
    [parsable : {TRUE}, query : {<<>>, <<" ","1","0","0","1"," ">>, <<"z","z">>},
     session_id : {ConcurrentSession}]

Requests == 1..NumRequests

InitAsk ==
    /\ DATA = SampleData
    /\ SESSIONS = Put(NoSessions, ConcurrentSession, NewSession(ConcurrentSession))
    /\ resp = NoResp
    /\ files = {}
    /\ inflight \in [Requests -> ConcurrentBodies]
    /\ pc = [r \in Requests |-> "start"]
    /\ call = NoCall
    /\ ret = NoRet
    /\ before = NoSessions

\* the handler is entered and suspends reading the body
AskAwait(r) ==
    /\ pc[r] = "start"
    /\ pc' = [pc EXCEPT ![r] = "await"]
    /\ UNCHANGED <<DATA, SESSIONS, resp, files, inflight, call, ret, before>>

\* the body has arrived: the handler runs from line 170 to its return
AskResume(r) ==
    /\ pc[r] = "await"
    /\ \E uuid \in (IF AskCallsUuid(inflight[r]) THEN Uuid4(SESSIONS) ELSE {NoneId}) :
         \E out \in ask(SESSIONS, inflight[r], uuid) :
            /\ SESSIONS' = out.SESSIONS
            /\ resp' = out.resp
    /\ pc' = [pc EXCEPT ![r] = "done"]
    /\ call' = [fn |-> "ask", args |-> <<inflight[r]>>]
    /\ before' = SESSIONS
    /\ UNCHANGED <<DATA, files, inflight, ret>>

NextAsk == \E r \in Requests : AskAwait(r) \/ AskResume(r)

SpecAsk == InitAsk /\ [][NextAsk]_vars

-----------------------------------------------------------------------------
(* Direct calls of find_profile on bounded datasets and queries *)

RowSQL2 == Row(<<"S","Q","L","2">>, <<"S","a","m"," ","D","a","t","a">>, NoNum, NoNum, NoNum, <<"H","T","M","L",","," ","C","S","S">>,
               <<"W","e","b"," ","D","e","v","e","l","o","p","m","e","n","t">>, <<"W","e","b"," ","D","e","v","e","l","o","p","e","r">>, NaN, NaN)
RowBlank == Row(<<"1","0","0","5">>, NaN, NoNum, 700, NoNum, NaN, NaN, NaN, NaN, NaN)

RowPool == {Row1001, Row1002, Row1003, RowSQL2, RowBlank}

Datasets == UNION {[1..n -> RowPool] : n \in 0..MaxRows}

FindQueries ==
    {<<"1","0","0","1">>, <<" ","C","y","b","e","r","s","e","c","u","r","i","t","y"," ">>, <<"p","y","t","h","o","n">>, <<"i"," ","l","i","k","e"," ","d","a","t","a">>, <<"s","q","l","2">>,
     <<"a","a","r","a","v">>, <<"P","r","i","y","a"," ","S","h","a","r","m","a"," ","p","l","e","a","s","e">>, <<"I"," ","k","n","o","w"," ","J","a","v","a"," ","a","n","d"," ","S","Q","L">>, <<"n","a","n">>,
     <<"z","z">>, <<>>}

InitFind ==
    /\ DATA \in Datasets
    /\ SESSIONS = NoSessions
    /\ resp = NoResp
    /\ files = {}
    /\ inflight = NoRequests
    /\ pc = <<>>
    /\ call \in [fn : {"find_profile"}, args : {<<q>> : q \in FindQueries}]
    /\ ret = NoRet
    /\ before = NoSessions

CallFindProfile ==
    /\ call.fn = "find_profile"
    /\ ~ret.done
    /\ ret' = [done |-> TRUE, val |-> find_profile(call.args[1])]
    /\ UNCHANGED <<DATA, SESSIONS, resp, files, inflight, pc, call, before>>

NextFind == CallFindProfile

SpecFind == InitFind /\ [][NextFind]_vars

-----------------------------------------------------------------------------
(* Direct calls of the scoring functions on bounded inputs *)

\* GPA in hundredths (0.00-10.00), marks in tenths (0.0-100.0)
GpaInputs    == {NoNum, 0, 652, 850, 900, 1000}
Marks10Inputs == {NoNum, 0, 533, 1000}
Marks12Inputs == {NoNum} \cup 0..1000

PerfCalls ==
    [fn : {"performance_level"},
     args : GpaInputs \X Marks10Inputs \X Marks12Inputs]

SkillPool ==
    {<<"P","y","t","h","o","n">>, <<"S","Q","L">>, <<"s","q","l">>, <<"p","o","w","e","r"," ","b","i">>, <<"P","o","w","e","r">>, <<"M","a","c","h","i","n","e"," ","L","e","a","r","n">>,
     <<"D","a","t","a"," ","S","t","a","t","i","s","t","i","c","s">>, <<"E","t","h","i","c","a","l">>, <<"M","L">>}

DomainInputs ==
    {<<"D","a","t","a">>, <<"A","I">>, <<"C","y","b","e","r","s","e","c","u","r","i","t","y">>, <<"W","e","b"," ","D","e","v","e","l","o","p","m","e","n","t">>, <<"d","a","t","a">>, <<"R","o","b","o","t","i","c","s">>}

SkillCalls ==
    [fn : {"compute_skill_fit"},
     args : (UNION {[1..n -> SkillPool] : n \in 0..MaxSkills}) \X DomainInputs]

CareerName(i) == <<"C","a","r","e","e","r"," ">> \o IntStr(i)

CareerCells ==
    {Join(sep, [i \in 1..n |-> CareerName(i)]) :
        sep \in {<<";">>, <<",">>, <<" ",";"," ">>}, n \in 1..MaxCareers}
    \cup {NaN, <<>>, <<";">>, <<" ",","," ">>, <<"A",","," ","B",";","C">>, <<";","A",";",";","B",";">>, <<" ","S","o","l","o"," ">>}

WeightCalls ==
    [fn : {"build_career_weights"},
     args : {<<Row(<<"1">>, <<"N">>, NoNum, NoNum, NoNum, NaN, NaN, cell, NaN, NaN)>> :
                cell \in CareerCells}]

InitScore ==
    /\ DATA = SampleData
    /\ SESSIONS = NoSessions
    /\ resp = NoResp
    /\ files = {}
    /\ inflight = NoRequests
    /\ pc = <<>>
    /\ call \in PerfCalls \cup SkillCalls \cup WeightCalls
    /\ ret = NoRet
    /\ before = NoSessions

CallPerformanceLevel ==
    /\ call.fn = "performance_level"
    /\ ~ret.done
    /\ \E out \in performance_level(call.args[1], call.args[2], call.args[3]) :
          ret' = [done |-> TRUE, val |-> out]
    /\ UNCHANGED <<DATA, SESSIONS, resp, files, inflight, pc, call, before>>

CallComputeSkillFit ==
    /\ call.fn = "compute_skill_fit"
    /\ ~ret.done
    /\ ret' = [done |-> TRUE, val |-> compute_skill_fit(call.args[1], call.args[2])]
    /\ UNCHANGED <<DATA, SESSIONS, resp, files, inflight, pc, call, before>>

CallBuildCareerWeights ==
    /\ call.fn = "build_career_weights"
    /\ ~ret.done
    /\ ret' = [done |-> TRUE, val |-> build_career_weights(call.args[1])]
    /\ UNCHANGED <<DATA, SESSIONS, resp, files, inflight, pc, call, before>>

NextScore ==
    CallPerformanceLevel \/ CallComputeSkillFit \/ CallBuildCareerWeights

SpecScore == InitScore /\ [][NextScore]_vars

-----------------------------------------------------------------------------
(* Properties of find_profile (checked under SpecFind) *)

FindDone == call.fn = "find_profile" /\ ret.done
FindQ    == lower(strip(call.args[1]))

SidOf(i)    == lower(strip(Str(DATA[i].Student_ID)))
NameOf(i)   == lower(strip(Str(DATA[i].Name)))
DomainOf(i) == lower(strip(Str(DATA[i].Interested_Domain)))
SkillIn(i, q) ==
    \E k \in 1..Len(safe_split(DATA[i].Skills)) :
        IsSubstr(lower(strip(safe_split(DATA[i].Skills)[k])), q)

MatchingRows(q) == {i \in 1..Len(DATA) : RowMatches(q, DATA[i])}

\* C1: for a non-empty normalized query find_profile returns the matching
\* row of lowest position, whichever of the tests of lines 90-94 it matches
\* by, and None exactly when no row matches.
C1_FirstMatchWins ==
    (FindDone /\ FindQ # <<>>) =>
        ret.val = IF MatchingRows(FindQ) = {} THEN 0
                  ELSE SetMin(MatchingRows(FindQ))

\* C1 witness: a row that matches only because one of its skills is inside
\* the query is returned ahead of a later row whose identifier is the query.
C1_Witness ==
    /\ FindDone /\ FindQ # <<>>
    /\ \E i, j \in 1..Len(DATA) :
        /\ i < j /\ ret.val = i
        /\ FindQ = SidOf(j)
        /\ SkillIn(i, FindQ)
        /\ FindQ \notin {SidOf(i), NameOf(i), DomainOf(i)}
        /\ ~IsSubstr(FindQ, NameOf(i))

\* The five-condition match policy as the specification lists it
ListedMatch(q, i) ==
    \/ q = SidOf(i)
    \/ q = NameOf(i)
    \/ IsSubstr(DomainOf(i), q) \/ IsSubstr(NameOf(i), q) \/ IsSubstr(q, NameOf(i))
    \/ q = DomainOf(i)
    \/ SkillIn(i, q)

\* C2 as claimed: a row whose domain or name is inside the query, or whose
\* name contains the query, is the result when no earlier row matches.
C2_SubstringPolicy ==
    FindDone =>
        \A i \in 1..Len(DATA) :
            ( /\ \A j \in 1..(i - 1) : ~ListedMatch(FindQ, j)
              /\ \/ IsSubstr(DomainOf(i), FindQ)
                 \/ IsSubstr(NameOf(i), FindQ)
                 \/ IsSubstr(FindQ, NameOf(i)) )
            => ret.val = i

\* C2 amended: with no earlier matching row, a row whose name contains the
\* query is the result; a row whose domain or name is merely inside a longer
\* query is not the result unless the query equals its identifier, name or
\* domain or contains one of its skills.
C2_NameContainsQueryOnly ==
    FindDone =>
        \A i \in 1..Len(DATA) :
            (\A j \in 1..(i - 1) : ~RowMatches(FindQ, DATA[j])) =>
                /\ IsSubstr(FindQ, NameOf(i)) => ret.val = i
                /\ ( /\ IsSubstr(DomainOf(i), FindQ) \/ IsSubstr(NameOf(i), FindQ)
                     /\ FindQ \notin {SidOf(i), NameOf(i), DomainOf(i)}
                     /\ ~IsSubstr(FindQ, NameOf(i))
                     /\ ~SkillIn(i, FindQ) )
                   => ret.val # i

\* C2 witness: a sentence that contains the first row's domain, and none of
\* its skills, resolves to nothing.
C2_Witness ==
    /\ FindDone /\ Len(DATA) >= 1
    /\ IsSubstr(DomainOf(1), FindQ) /\ FindQ # DomainOf(1)
    /\ ret.val = 0

-----------------------------------------------------------------------------
(* Properties of the scoring functions (checked under SpecScore) *)

PerfDone == call.fn = "performance_level" /\ ret.done

\* C3: the returned score (tenths) lies in [0,100] and the returned level is
\* the one the threshold table gives the returned score.
C3_LevelAgreesWithScore ==
    PerfDone =>
        LET level == ret.val[1]
            score == ret.val[2]
        IN  /\ score \in 0..1000
            /\ (level = LevelExcellent) <=> (score >= 850)
            /\ (level = LevelGood) <=> (score >= 700 /\ score <= 849)
            /\ (level = LevelNeeds) <=> (score <= 699)

WeightsDone == call.fn = "build_career_weights" /\ ret.done

RECURSIVE SumWeights(_)
SumWeights(ws) ==
    IF ws = <<>> THEN 0 ELSE Head(ws).weight + SumWeights(Tail(ws))

\* C4: one entry per career in the original order; every entry but the last
\* has 100/n rounded to one decimal; the weights sum to 100.0 (1000 tenths);
\* no careers, no entries.
C4_WeightsSumTo100 ==
    WeightsDone =>
        LET careers == safe_split(Str(call.args[1].Career_Suggestions))
            n == Len(careers)
            w == ret.val
        IN  IF n = 0 THEN w = <<>>
            ELSE /\ Len(w) = n
                 /\ \A i \in 1..n : w[i].career = careers[i]
                 /\ \A i \in 1..(n - 1) :
                        /\ 2 * (n * w[i].weight - 1000) <= n
                        /\ 2 * (1000 - n * w[i].weight) <= n
                 /\ SumWeights(w) = 1000

\* C4 witness: three careers, the last one carrying the rounding remainder.
C4_Witness ==
    /\ WeightsDone /\ Len(ret.val) = 3
    /\ ret.val[1].weight = 333 /\ ret.val[3].weight = 334

SkillFitDone == call.fn = "compute_skill_fit" /\ ret.done

RequiredSkills(domain) ==
    IF \E e \in Range(DOMAIN_SKILL_MAP) : e[1] = domain
    THEN (CHOOSE e \in Range(DOMAIN_SKILL_MAP) : e[1] = domain)[2]
    ELSE <<>>

\* C5: labels are the domain's required skills (none for an unknown domain),
\* values run parallel to them, and a value is 100 for a required skill that
\* equals a student skill case-insensitively, else 60 if one of its
\* whitespace-delimited tokens is inside a student skill, else 20.
C5_SkillFitRule ==
    SkillFitDone =>
        LET skills == call.args[1]
            labels == ret.val.labels
            values == ret.val.values
        IN  /\ labels = RequiredSkills(call.args[2])
            /\ Len(values) = Len(labels)
            /\ \A i \in 1..Len(labels) :
                values[i] =
                    IF \E k \in 1..Len(skills) : lower(skills[k]) = lower(labels[i])
                    THEN 100
                    ELSE IF \E k \in 1..Len(skills) :
                              \E t \in Range(split(labels[i])) :
                                  IsSubstr(lower(t), lower(skills[k]))
                    THEN 60
                    ELSE 20

\* C5 witness: skills [Python, SQL] with domain Data: 100 for SQL, 20 for Excel.
C5_Witness ==
    /\ SkillFitDone
    /\ call.args[1] = <<<<"P","y","t","h","o","n">>, <<"S","Q","L">>>> /\ call.args[2] = <<"D","a","t","a">>
    /\ ret.val.labels[1] = <<"S","Q","L">> /\ ret.val.values[1] = 100
    /\ ret.val.labels[2] = <<"E","x","c","e","l">> /\ ret.val.values[2] = 20

-----------------------------------------------------------------------------
(* Properties of the request handlers (checked under Spec) *)

IsPrefix(a, b) == Len(a) <= Len(b) /\ SubSeq(b, 1, Len(a)) = a

LoginDone     == call.fn = "login"
LoginUsername == IF call.args[1].parsable THEN GetId(call.args[1].username) ELSE ""
LoginPassword == IF call.args[1].parsable THEN GetId(call.args[1].password) ELSE ""
CredentialsMatch ==
    LoginUsername \in DOMAIN USERS /\ USERS[LoginUsername] = LoginPassword

\* a session of user "guest" that the last request put into the store
GuestSessionCreated ==
    \E s \in DOMAIN SESSIONS \ DOMAIN before : SESSIONS[s].user = "guest"

\* C6 as claimed: "ok" exactly for a pair of the credential table, "guest"
\* exactly when both fields are empty or missing, "error" otherwise; a guest
\* session is created only with status "guest".
C6_LoginStatusTable ==
    LoginDone =>
        /\ (resp.body.status = "ok") <=> CredentialsMatch
        /\ (resp.body.status = "guest") <=> (LoginUsername = "" /\ LoginPassword = "")
        /\ (resp.body.status = "error") <=>
               (~CredentialsMatch /\ ~(LoginUsername = "" /\ LoginPassword = ""))
        /\ GuestSessionCreated => resp.body.status = "guest"

\* C6 amended: "guest" exactly when at least one of the two fields is empty
\* or missing, "ok" exactly when both are given and match the credential
\* table, "error" otherwise; a guest session is created exactly with status
\* "guest".
C6_GuestWhenEitherFieldEmpty ==
    LoginDone =>
        /\ (resp.body.status = "guest") <=> (LoginUsername = "" \/ LoginPassword = "")
        /\ (resp.body.status = "ok") <=>
               (LoginUsername # "" /\ LoginPassword # "" /\ CredentialsMatch)
        /\ (resp.body.status = "error") <=>
               (LoginUsername # "" /\ LoginPassword # "" /\ ~CredentialsMatch)
        /\ GuestSessionCreated <=> (resp.body.status = "guest")

\* C6 witness: a login with a username and no password started a guest session.
C6_Witness ==
    /\ LoginDone
    /\ LoginUsername = "kirubha" /\ LoginPassword = ""
    /\ resp.body.status = "guest" /\ GuestSessionCreated

\* C7 as claimed: no request removes or moves an entry of a session's
\* history: every session the request found is still there and its history
\* as found is a prefix of its history now.
C7_HistoryAppendOnly ==
    \A s \in DOMAIN before :
        /\ s \in DOMAIN SESSIONS
        /\ IsPrefix(before[s].history, SESSIONS[s].history)

LoginOkFor(s) ==
    LoginDone /\ resp.body.status = "ok" /\ resp.body.session_id = s

\* C7 amended: a successful login of user u returns session id u every time
\* and replaces session u by a new one with an empty history; every other
\* request leaves each session in the store with its history as found as a
\* prefix of its history now.
C7_AppendOnlyExceptLogin ==
    /\ \A s \in DOMAIN before :
        /\ s \in DOMAIN SESSIONS
        /\ IF LoginOkFor(s)
           THEN SESSIONS[s] = NewSession(s)
           ELSE IsPrefix(before[s].history, SESSIONS[s].history)
    /\ (LoginDone /\ resp.body.status = "ok") =>
           /\ resp.body.session_id = LoginUsername
           /\ SESSIONS[LoginUsername] = NewSession(LoginUsername)

\* C7 witness: a second successful login found entries in the user's
\* session and left it empty.
C7_Witness ==
    /\ LoginOkFor("kirubha")
    /\ "kirubha" \in DOMAIN before
    /\ before["kirubha"].user = "kirubha"
    /\ before["kirubha"].history # <<>>
    /\ SESSIONS["kirubha"].history = <<>>

AskDone == call.fn = "ask" /\ call.args[1].parsable
AskSupplied ==
    call.args[1].session_id # NoneId /\ call.args[1].session_id # ""
AskQuery == strip(GetStr(call.args[1].query))

\* what /ask leaves of target session t, given what it found
AskEffectOn(t) ==
    /\ t \in DOMAIN SESSIONS
    /\ DOMAIN SESSIONS = DOMAIN before \cup {t}
    /\ SESSIONS[t].user = IF t \in DOMAIN before THEN before[t].user ELSE "guest"
    /\ LET old == IF t \in DOMAIN before THEN before[t].history ELSE <<>>
           new == SESSIONS[t].history
       IN  /\ IsPrefix(old, new)
           /\ Len(new) > Len(old)
           /\ new[Len(old) + 1] = Entry("user", AskQuery)
    /\ \A s \in DOMAIN before \ {t} : SESSIONS[s] = before[s]

\* C8: every /ask with a parsable body leaves its target session (the one
\* supplied, else a new identifier that was not in the store) in the store,
\* created with user "guest" and an empty history if it was not there, with
\* the user entry appended; the target's user field and every other session
\* are as found.
C8_AskSessionEffect ==
    AskDone =>
        IF AskSupplied THEN AskEffectOn(call.args[1].session_id)
        ELSE \E t \in DOMAIN SESSIONS \ DOMAIN before : AskEffectOn(t)

\* C8 witness: an /ask with an empty query on a session that already held
\* entries, with another session in the store.
C8_Witness ==
    /\ AskDone /\ AskSupplied /\ AskQuery = <<>>
    /\ call.args[1].session_id \in DOMAIN before
    /\ before[call.args[1].session_id].history # <<>>
    /\ \E s \in DOMAIN before : s # call.args[1].session_id

\* C8 witness for the other case: an /ask without a session id created one.
C8_WitnessFresh ==
    /\ AskDone /\ ~AskSupplied /\ AskQuery # <<>>
    /\ \E t \in DOMAIN SESSIONS \ DOMAIN before : Len(SESSIONS[t].history) = 2

\* the media type of the file response the claim expects
SavedPdf == "application/pdf"

\* C9: /download/{student_id} saves the PDF and returns it as a file
\* response exactly when the trimmed id is that of a row; otherwise it is a
\* 404 and no file is written.
C9_DownloadReturnsPdf ==
    call.fn = "download_plan" =>
        IF FindStudent(call.args[1]) # 0
        THEN /\ resp.code = 200 /\ resp.body = SavedPdf
             /\ PlanFilename(Str(DATA[FindStudent(call.args[1])].Name)) \in files
        ELSE resp.code = 404 /\ files = {}

-----------------------------------------------------------------------------
(* Concurrent /ask requests (checked under SpecAsk) *)

AllDone == \A r \in Requests : pc[r] = "done"

ConcurrentHistory == SESSIONS[ConcurrentSession].history

\* the replies ask can append for query q
RepliesTo(q) ==
    IF find_profile(q) = 0 THEN {NotFoundMsg}
    ELSE {Insights(DATA[find_profile(q)], perf).summary_text :
            perf \in performance_level(DATA[find_profile(q)].GPA,
                                       DATA[find_profile(q)].Marks10,
                                       DATA[find_profile(q)].Marks12)}

UserEntriesOf(q) ==
    {i \in 1..Len(ConcurrentHistory) : ConcurrentHistory[i] = Entry("user", q)}

RequestsAsking(q) ==
    {r \in Requests : strip(GetStr(inflight[r].query)) = q}

\* C10: whatever the interleaving, when all N requests on the one session
\* have finished its history holds the user entry of each of them, and each
\* user entry with a non-empty query is directly followed by the reply to
\* that query.
C10_NoLostUpdates ==
    /\ \A i \in 1..Len(ConcurrentHistory) :
         (ConcurrentHistory[i].sender = "user" /\ ConcurrentHistory[i].msg # <<>>) =>
            /\ i < Len(ConcurrentHistory)
            /\ ConcurrentHistory[i + 1].sender = "elix"
            /\ ConcurrentHistory[i + 1].msg \in RepliesTo(ConcurrentHistory[i].msg)
    /\ AllDone =>
        /\ Cardinality({i \in 1..Len(ConcurrentHistory) :
                            ConcurrentHistory[i].sender = "user"}) = NumRequests
        /\ \A r \in Requests :
             LET q == strip(GetStr(inflight[r].query))
             IN  Cardinality(UserEntriesOf(q)) = Cardinality(RequestsAsking(q))

\* C10 witness: all requests finished, a matched and an unmatched query
\* among them, the later one answered after the earlier one.
C10_Witness ==
    /\ AllDone
    /\ \E i, j \in 1..Len(ConcurrentHistory) :
         /\ i < j
         /\ ConcurrentHistory[i] = Entry("user", <<"z","z">>)
         /\ ConcurrentHistory[j] = Entry("user", <<"1","0","0","1">>)

====
